---- MODULE Spec2Model ----
(***************************************************************************)
(* Tobot remote control (Tobot.PicoRemote/remote-control.py): the boot     *)
(* sequence, the remote link (check_remote_endpoint, send_action over      *)
(* http_get), the LED renderer and the keypad polling loop, as one         *)
(* sequential state machine.  pc is the position of the single control     *)
(* thread in the source.  The source is MicroPython firmware: MicroPython  *)
(* accepts the second `global remote_status` of send_action, and the model *)
(* takes the program as running.                                           *)
(***************************************************************************)
EXTENDS Integers, Sequences, FiniteSets, TLC

\* ------------------------------------------------------------------ bounds
\* Largest clock value the model explores (time.time() is capped here).
MaxTime == 4
\* Largest number of keys held at once in one keypad sample.
MaxPressed == 2
\* Number of sockets the network stack can hold open: with that many open,
\* socket.socket() raises.
MaxSockets == 1

\* --------------------------------------------------------------- constants
NUM_PADS == 16

STATUS_BOOT_PAD == 0
STATUS_WIFI_PAD == 1
STATUS_REMOTE_PAD == 2
STATUS_COMPANION_PAD == 3

CONTROLLER_UP == 6
CONTROLLER_LEFT == 9
CONTROLLER_STOP == 10
CONTROLLER_RIGHT == 11
CONTROLLER_DOWN == 14

FUNCTION_KEY_1 == 4
FUNCTION_KEY_2 == 8
FUNCTION_KEY_3 == 12

\* s.settimeout(10): the longest one http_get exchange may block.
SocketTimeout == 10
\* connect_wifi's bounded wait.
WifiTimeout == 10
\* handle_keypad_events' refresh_interval.
refresh_interval == 1
\* The only status code that counts as success.
HTTP_OK == 200

Pads == 0 .. (NUM_PADS - 1)

\* The colour constants, by name.
Colours == {"OFF", "GREEN", "GREEN_DIM", "RED", "BLUE", "BLUE_DIM",
            "PURPLE", "ORANGE", "WHITE_DIM"}

\* Variant of CONTROLLER_ACTIONS: the items sorted by pad index.
ControllerActionsAscending ==
    << <<FUNCTION_KEY_1, "light-on">>,
       <<CONTROLLER_UP, "forward">>,
       <<FUNCTION_KEY_2, "light-off">>,
       <<CONTROLLER_LEFT, "left">>,
       <<CONTROLLER_STOP, "stop">>,
       <<CONTROLLER_RIGHT, "right">>,
       <<CONTROLLER_DOWN, "backwards">> >>

\* Variant of CONTROLLER_ACTIONS: the reserved function key 3 is mapped too.
ControllerActionsWithKey3 ==
    << <<CONTROLLER_UP, "forward">>,
       <<CONTROLLER_LEFT, "left">>,
       <<CONTROLLER_STOP, "stop">>,
       <<CONTROLLER_RIGHT, "right">>,
       <<CONTROLLER_DOWN, "backwards">>,
       <<FUNCTION_KEY_1, "light-on">>,
       <<FUNCTION_KEY_2, "light-off">>,
       <<FUNCTION_KEY_3, "horn">> >>

\* CONTROLLER_ACTIONS, in the order the dict literal lists its items: the
\* order `for pad_index, action in CONTROLLER_ACTIONS.items()` visits them
\* where a dict iterates in insertion order.
CONTROLLER_ACTIONS ==
    << <<CONTROLLER_UP, "forward">>,
       <<CONTROLLER_LEFT, "left">>,
       <<CONTROLLER_STOP, "stop">>,
       <<CONTROLLER_RIGHT, "right">>,
       <<CONTROLLER_DOWN, "backwards">>,
       <<FUNCTION_KEY_1, "light-on">>,
       <<FUNCTION_KEY_2, "light-off">> >>

NumActions == Len(CONTROLLER_ACTIONS)
PadAt(i) == CONTROLLER_ACTIONS[i][1]
ActionAt(i) == CONTROLLER_ACTIONS[i][2]

\* ---------------------------------------------------------------- bitmasks
RECURSIVE Pow2(_)
Pow2(n) == IF n = 0 THEN 1 ELSE 2 * Pow2(n - 1)

\* button_bit = 1 << pad_index
ButtonBit(pad) == Pow2(pad)

\* (mask & bit) for a one-bit `bit`: the bit itself, or 0.
BitAnd(mask, bit) == IF (mask \div bit) % 2 = 1 THEN bit ELSE 0

\* The bitmask get_button_states() returns when exactly the pads of S are held.
RECURSIVE MaskOf(_)
MaskOf(S) ==
    IF S = {} THEN 0
    ELSE LET p == CHOOSE q \in S : TRUE IN ButtonBit(p) + MaskOf(S \ {p})

\* The pads the explored samples hold together with others: one function key
\* and two of the arrow / stop keys.
ChordPads == {FUNCTION_KEY_1, CONTROLLER_STOP, CONTROLLER_DOWN}

\* The keypad samples explored: nothing held, any one of the 16 keys held,
\* or up to MaxPressed of the chord pads held together.
HeldSets ==
    {{}} \cup {{p} : p \in Pads}
         \cup {S \in SUBSET ChordPads : Cardinality(S) \in 2 .. MaxPressed}

Samples == {MaskOf(S) : S \in HeldSets}

\* --------------------------------------------------------------- transport
\* A response is the byte string read from the socket, cut into atoms: "SP"
\* is a run of blanks, "CRLF" is \r\n, any other atom is a maximal run of
\* non-blank bytes.
Responses ==
    { <<"HTTP/1.1", "SP", "200", "SP", "OK", "CRLF", "Host:", "SP", "x",
        "CRLF", "CRLF", "OK">>,
      <<"HTTP/1.1", "SP", "500", "SP", "Internal", "CRLF", "CRLF", "oops">>,
      <<"HTTP/1.1", "SP", "abc", "CRLF", "CRLF">>,
      <<"garbage", "CRLF", "CRLF">>,
      <<"200", "SP", "OK", "CRLF", "CRLF", "OK">>,
      <<"HTTP/1.1", "SP", "200">>,
      <<"HTTP/1.1", "SP", "200", "CRLF", "CRLF", "a", "CRLF", "CRLF", "b">>,
      <<>> }

\* The places where http_get can raise: getaddrinfo, socket.socket(), connect,
\* send, recv (a timeout raises at connect, send or recv).
Faults == {"resolve", "socket", "connect", "send", "recv"}

\* The faults raised after socket.socket() returned (line 167) and before
\* s.close() (line 184): the socket is open when they leave http_get.
FaultsWithSocket == {"connect", "send", "recv"}

\* What the network can do to one http_get call.
HttpOutcomes ==
    {[fault |-> f, data |-> <<>>] : f \in Faults}
        \cup {[fault |-> "none", data |-> r] : r \in Responses}

\* Index of the first b"\r\n\r\n" in data, 0 when there is none.
FirstBlankLine(data) ==
    LET hits == {i \in 1 .. (Len(data) - 1) :
                    data[i] = "CRLF" /\ data[i + 1] = "CRLF"}
    IN IF hits = {} THEN 0
       ELSE CHOOSE i \in hits : \A j \in hits : i <= j

\* parts = data.split(b"\r\n\r\n", 1); header = parts[0]
HeaderOf(data) ==
    LET i == FirstBlankLine(data)
    IN IF i = 0 THEN data ELSE SubSeq(data, 1, i - 1)

\* body = parts[1] if len(parts) > 1 else b""
BodyOf(data) ==
    LET i == FirstBlankLine(data)
    IN IF i = 0 THEN <<>> ELSE SubSeq(data, i + 2, Len(data))

\* first_line = header.split(b"\r\n", 1)[0]
FirstLineOf(header) ==
    LET hits == {i \in 1 .. Len(header) : header[i] = "CRLF"}
    IN IF hits = {} THEN header
       ELSE SubSeq(header, 1, (CHOOSE i \in hits : \A j \in hits : i <= j) - 1)

\* first_line.split(): the whitespace-delimited tokens.
IsToken(a) == a # "SP"
SplitTokens(line) == SelectSeq(line, IsToken)

\* int(token): the tokens that are integers, with their values.
IntTokens == {"200", "500"}
IntOf(tok) == IF tok = "200" THEN 200 ELSE 500

\* Variant of StatusCodeOf: the first token of the line is converted.
StatusCodeOfFirstToken(data) ==
    LET toks == SplitTokens(FirstLineOf(HeaderOf(data)))
    IN IF Len(toks) >= 1 /\ toks[1] \in IntTokens THEN IntOf(toks[1]) ELSE 0

\* try: status_code = int(first_line.split()[1])  except: status_code = 0
StatusCodeOf(data) ==
    LET toks == SplitTokens(FirstLineOf(HeaderOf(data)))
    IN IF Len(toks) >= 2 /\ toks[2] \in IntTokens THEN IntOf(toks[2]) ELSE 0

\* http_get(query) under network outcome o: either it raises, or it returns
\* (status_code, body).
http_get(o) ==
    IF o.fault # "none"
    THEN [raised |-> TRUE, status |-> 0, body |-> <<>>]
    ELSE [raised |-> FALSE, status |-> StatusCodeOf(o.data),
          body |-> BodyOf(o.data)]

\* A returned Python bool, as kept in ret.
BoolStr(b) == IF b THEN "True" ELSE "False"

\* What a caller of http_get keeps of the call: whether it raised and the
\* status code (both callers drop the body unread).
Outcome(r) == [raised |-> r.raised, status |-> r.status]

\* No call in progress.
NoResult == [raised |-> FALSE, status |-> -1]

\* ------------------------------------------------------------------- state
VARIABLES
    pc,                 \* position of the control thread
    creds,              \* secret.py: "missing", "empty" (blank SSID/PASSWORD), "ok"
    boot_status, wifi_status, remote_status,
    staged,             \* colours set with keypad.illuminate, not yet flushed
    hw,                 \* colours on the hardware after the last keypad.update()
    button_states, last_button_states,
    padPos,             \* position of the for loop in CONTROLLER_ACTIONS
    action,             \* send_action's argument
    query,              \* token of the request handed to http_get ("none": no call)
    result,             \* what http_get returned or raised to its caller
    data,               \* http_get's local data: the bytes read, until it returns
    open_sockets,       \* sockets created and not closed
    ret,                \* value returned by check_remote_endpoint / send_action
    scpRet,             \* who called show_controller_pattern
    now,                \* time.time()
    current_time, last_refresh,
    fired,              \* history: pads send_action was called for in this sample
    reqs,               \* history: tokens handed to http_get in this phase
    redraws             \* history: full redraws made by the current send_action

vars == <<pc, creds, data, open_sockets, boot_status, wifi_status,
          remote_status, staged, hw, button_states, last_button_states,
          padPos, action, query, result, ret, scpRet, now, current_time,
          last_refresh, fired, reqs, redraws>>

flagVars == <<boot_status, wifi_status, remote_status>>
ledVars == <<staged, hw>>
keyVars == <<button_states, last_button_states, padPos>>
callVars == <<action, query, result, ret>>
timeVars == <<now, current_time, last_refresh>>
histVars == <<fired, reqs, redraws>>

\* CREDENTIALS_OK: the import of secret.py succeeded.
CREDENTIALS_OK == creds # "missing"
\* `not SSID or not PASSWORD` is false exactly for non-empty credentials.
HaveSsidAndPassword == creds = "ok"

Init ==
    /\ pc = "boot"
    /\ creds \in {"missing", "empty", "ok"}
    /\ boot_status = FALSE
    /\ wifi_status = FALSE
    /\ remote_status = FALSE
    /\ staged = [i \in Pads |-> "OFF"]
    /\ hw = [i \in Pads |-> "OFF"]
    /\ button_states = 0
    /\ last_button_states = 0
    /\ padPos = 1
    /\ action = "none"
    /\ query = "none"
    /\ result = NoResult
    /\ data = <<>>
    /\ open_sockets = 0
    /\ ret = "none"
    /\ scpRet = "none"
    /\ now \in 0 .. MaxTime
    /\ current_time = 0
    /\ last_refresh = 0
    /\ fired = <<>>
    /\ reqs = <<>>
    /\ redraws = 0

\* The clock after a blocking call of at most `most` seconds.
Elapse(most) == \E d \in 0 .. most : now + d <= MaxTime /\ now' = now + d

\* ---------------------------------------------------------------- renderer
\* Variant of StatusColour: a set flag shows the full-brightness green.
StatusColourBright(flag) == IF flag THEN "GREEN" ELSE "RED"

\* Lines 116-131: GREEN_DIM for a set flag, RED for a cleared one.
StatusColour(flag) == IF flag THEN "GREEN_DIM" ELSE "RED"

\* Variant of StatusRow: the boot pad pulses, a set boot flag alternating
\* between the dim and the full green from one render to the next.
StatusRowPulsing(st, boot, wifi, remote) ==
    [st EXCEPT ![STATUS_BOOT_PAD] =
                   IF ~boot THEN "RED"
                   ELSE IF st[STATUS_BOOT_PAD] = "GREEN_DIM" THEN "GREEN"
                   ELSE "GREEN_DIM",
               ![STATUS_WIFI_PAD] = StatusColour(wifi),
               ![STATUS_REMOTE_PAD] = StatusColour(remote),
               ![STATUS_COMPANION_PAD] = "ORANGE"]

\* update_status_leds, the illuminate calls: the staged colours afterwards.
StatusRow(st, boot, wifi, remote) ==
    [st EXCEPT ![STATUS_BOOT_PAD] = StatusColour(boot),
               ![STATUS_WIFI_PAD] = StatusColour(wifi),
               ![STATUS_REMOTE_PAD] = StatusColour(remote),
               ![STATUS_COMPANION_PAD] = "ORANGE"]

\* show_controller_pattern, first loop: every pad but 0, 1, 2 to WHITE_DIM.
Baseline(st) ==
    [i \in Pads |->
        IF i \in {STATUS_BOOT_PAD, STATUS_WIFI_PAD, STATUS_REMOTE_PAD}
        THEN st[i] ELSE "WHITE_DIM"]

\* show_controller_pattern, the five arrow / stop pads.
Arrows(st) ==
    [st EXCEPT ![CONTROLLER_UP] = "BLUE_DIM",
               ![CONTROLLER_LEFT] = "BLUE_DIM",
               ![CONTROLLER_STOP] = "BLUE_DIM",
               ![CONTROLLER_RIGHT] = "BLUE_DIM",
               ![CONTROLLER_DOWN] = "BLUE_DIM"]

\* show_controller_pattern, the three function pads.
FunctionKeys(st) ==
    [st EXCEPT ![FUNCTION_KEY_1] = "PURPLE",
               ![FUNCTION_KEY_2] = "PURPLE",
               ![FUNCTION_KEY_3] = "PURPLE"]

\* update_status_leds(): stage the status row from the flags and flush.
\* Called three times by initialize (after the boot flag, after connect_wifi,
\* after check_remote_endpoint).
UpdateStatusLeds ==
    /\ pc \in {"init_leds1", "init_leds2", "init_leds3"}
    /\ staged' = StatusRow(staged, boot_status, wifi_status, remote_status)
    /\ hw' = staged'
    /\ ret' = "none"
    /\ IF pc = "init_leds1" THEN pc' = "connect_wifi" /\ scpRet' = scpRet
       ELSE IF pc = "init_leds2" THEN pc' = "cre_entry" /\ scpRet' = scpRet
       ELSE pc' = "scp" /\ scpRet' = "init"
    /\ UNCHANGED <<creds, data, open_sockets, flagVars, keyVars, action,
                   query, result, timeVars, histVars>>

\* Variant of ControllerPattern: the status row is staged first, the
\* baseline, the arrows and the function keys after it.
ControllerPatternStatusFirst(st, boot, wifi, remote) ==
    FunctionKeys(Arrows(Baseline(StatusRow(st, boot, wifi, remote))))

\* show_controller_pattern(): the baseline, the arrows, the function keys,
\* then update_status_leds(), which stages the status row and flushes.
ControllerPattern(st, boot, wifi, remote) ==
    StatusRow(FunctionKeys(Arrows(Baseline(st))), boot, wifi, remote)

\* show_controller_pattern() and the return to its caller: initialize (which
\* returns to __main__, which enters handle_keypad_events), send_action (which
\* returns False to the for loop) or the periodic refresh (line 337 follows).
ShowControllerPattern ==
    /\ pc = "scp"
    /\ staged' = ControllerPattern(staged, boot_status, wifi_status,
                                   remote_status)
    /\ hw' = staged'
    /\ scpRet' = "none"
    /\ redraws' = IF scpRet = "action" THEN redraws + 1 ELSE redraws
    /\ IF scpRet = "init"
       THEN pc' = "loop_enter" /\ UNCHANGED <<ret, padPos>>
       ELSE IF scpRet = "action"
       THEN pc' = "for" /\ ret' = BoolStr(FALSE) /\ padPos' = padPos + 1
       ELSE pc' = "refresh_store" /\ UNCHANGED <<ret, padPos>>
    /\ UNCHANGED <<creds, data, open_sockets, flagVars, button_states,
                   last_button_states, action, query, result, timeVars, fired,
                   reqs>>

\* ------------------------------------------------------------ boot sequence
\* initialize(), lines 251-258: without secret.py it returns at once, and
\* __main__ goes on to handle_keypad_events(); otherwise it sets the boot flag.
Boot ==
    /\ pc = "boot"
    /\ IF ~CREDENTIALS_OK
       THEN pc' = "loop_enter" /\ boot_status' = boot_status
       ELSE pc' = "init_leds1" /\ boot_status' = TRUE
    /\ UNCHANGED <<creds, data, open_sockets, wifi_status, remote_status,
                   ledVars, keyVars, callVars, scpRet, timeVars, histVars>>

\* connect_wifi(): no attempt without SSID and PASSWORD; otherwise the wait
\* of at most 10 s, after which wlan.isconnected() decides.
ConnectWifi ==
    /\ pc = "connect_wifi"
    /\ IF ~HaveSsidAndPassword
       THEN wifi_status' = FALSE /\ ret' = BoolStr(FALSE) /\ now' = now
       ELSE \E isconnected \in BOOLEAN :
                /\ wifi_status' = isconnected
                /\ ret' = BoolStr(isconnected)
                /\ Elapse(WifiTimeout)
    /\ pc' = "init_leds2"
    /\ UNCHANGED <<creds, data, open_sockets, boot_status, remote_status,
                   ledVars, keyVars, action, query, result, scpRet,
                   current_time, last_refresh, histVars>>

\* ------------------------------------------------------------- remote link
\* Variant of IsOk: any parsed status code counts as success.
IsOkAnyParsed(status) == status # 0

\* status_code == 200
IsOk(status) == status = HTTP_OK

\* Variant of CreLinkDown: the link check is missing.
CreLinkDownUnchecked == FALSE

\* check_remote_endpoint(), line 199: `if not wifi_status`.
CreLinkDown == ~wifi_status

\* Variant of SaLinkDown: the link check is missing.
SaLinkDownUnchecked == FALSE

\* send_action(), line 277: `if not wifi_status`.
SaLinkDown == ~wifi_status

\* check_remote_endpoint(), lines 199-203: without a link, remote_status is
\* cleared and False returned; with one, http_get("action=ping") is called.
CheckRemoteEntry ==
    /\ pc = "cre_entry"
    /\ IF CreLinkDown
       THEN /\ remote_status' = FALSE
            /\ ret' = BoolStr(FALSE)
            /\ pc' = "init_leds3"
            /\ query' = query
       ELSE /\ pc' = "cre_http"
            /\ query' = "ping"
            /\ UNCHANGED <<remote_status, ret>>
    /\ UNCHANGED <<creds, data, open_sockets, boot_status, wifi_status,
                   ledVars, keyVars, action, result, scpRet, timeVars,
                   histVars>>

\* The outcomes one http_get call can have with n sockets open: with no
\* socket left socket.socket() raises, unless getaddrinfo raised before it.
OutcomesWith(n) ==
    IF n < MaxSockets THEN HttpOutcomes
    ELSE {o \in HttpOutcomes : o.fault \in {"resolve", "socket"}}

\* The sockets open when http_get is left: s.close() (line 184) is reached
\* only when connect, send and every recv returned; a fault raised between
\* socket.socket() and s.close() leaves the function with the socket open.
SocketsAfter(n, o) == IF o.fault \in FaultsWithSocket THEN n + 1 ELSE n

\* http_get(query): one socket round trip, whose outcome the network decides;
\* it blocks for at most the socket timeout.
HttpGet ==
    /\ pc \in {"cre_http", "sa_http"}
    /\ \E o \in OutcomesWith(open_sockets) :
          /\ result' = Outcome(http_get(o))
          /\ open_sockets' = SocketsAfter(open_sockets, o)
    /\ Elapse(SocketTimeout)
    /\ reqs' = Append(reqs, query)
    /\ pc' = IF pc = "cre_http" THEN "cre_result" ELSE "sa_result"
    /\ UNCHANGED <<creds, data, flagVars, ledVars, keyVars, action, query,
                   ret, scpRet, current_time, last_refresh, fired, redraws>>

\* check_remote_endpoint(), lines 204-210: remote_status = (status_code ==
\* 200), returned; an exception of http_get clears it and returns False.
CheckRemoteResult ==
    /\ pc = "cre_result"
    /\ remote_status' = IF result.raised THEN FALSE ELSE IsOk(result.status)
    /\ ret' = BoolStr(remote_status')
    /\ result' = NoResult
    /\ query' = "none"
    /\ pc' = "init_leds3"
    /\ UNCHANGED <<creds, data, open_sockets, boot_status, wifi_status,
                   ledVars, keyVars, action, scpRet, timeVars, histVars>>

\* send_action(action), lines 277-281: without a link it returns False at
\* once; with one, http_get('action=<action>') is called.
SendActionEntry ==
    /\ pc = "sa_entry"
    /\ redraws' = 0
    /\ IF SaLinkDown
       THEN /\ ret' = BoolStr(FALSE)
            /\ pc' = "for"
            /\ padPos' = padPos + 1
            /\ query' = query
       ELSE /\ pc' = "sa_http"
            /\ query' = action
            /\ UNCHANGED <<ret, padPos>>
    /\ UNCHANGED <<creds, data, open_sockets, flagVars, ledVars, button_states,
                   last_button_states, action, result, scpRet,
                   timeVars, fired, reqs>>

\* Variant of SendActionResult: no handler, an exception of http_get leaves
\* send_action and ends the program.
SendActionResultUncaught ==
    /\ pc = "sa_result"
    /\ result' = NoResult
    /\ query' = "none"
    /\ IF result.raised
       THEN pc' = "halted" /\ UNCHANGED <<ret, padPos>>
       ELSE IF ~IsOk(result.status)
       THEN pc' = "sa_not_ok" /\ UNCHANGED <<ret, padPos>>
       ELSE pc' = "for" /\ ret' = BoolStr(TRUE) /\ padPos' = padPos + 1
    /\ UNCHANGED <<creds, data, open_sockets, flagVars, ledVars, button_states,
                   last_button_states, action, scpRet, timeVars, histVars>>

\* Variant of SendActionResult: a 200 sets remote_status again.
SendActionResultMarksReachable ==
    /\ pc = "sa_result"
    /\ result' = NoResult
    /\ query' = "none"
    /\ IF result.raised
       THEN /\ pc' = "sa_except"
            /\ UNCHANGED <<ret, padPos, remote_status>>
       ELSE IF ~IsOk(result.status)
       THEN /\ pc' = "sa_not_ok"
            /\ UNCHANGED <<ret, padPos, remote_status>>
       ELSE /\ pc' = "for"
            /\ ret' = BoolStr(TRUE)
            /\ padPos' = padPos + 1
            /\ remote_status' = TRUE
    /\ UNCHANGED <<creds, data, open_sockets, boot_status, wifi_status,
                   ledVars, button_states, last_button_states, action,
                   scpRet, timeVars, histVars>>

\* send_action(), lines 282-284, 289 and 290-291: a 200 returns True; any
\* other status takes the `if not ok` branch, an exception the handler.
SendActionResult ==
    /\ pc = "sa_result"
    /\ result' = NoResult
    /\ query' = "none"
    /\ IF result.raised
       THEN pc' = "sa_except" /\ UNCHANGED <<ret, padPos>>
       ELSE IF ~IsOk(result.status)
       THEN pc' = "sa_not_ok" /\ UNCHANGED <<ret, padPos>>
       ELSE pc' = "for" /\ ret' = BoolStr(TRUE) /\ padPos' = padPos + 1
    /\ UNCHANGED <<creds, data, open_sockets, flagVars, ledVars, button_states,
                   last_button_states, action, scpRet, timeVars,
                   histVars>>

\* Variant of SendActionFailed: the redraw is called with remote_status not
\* yet cleared.
SendActionFailedRedrawFirst ==
    /\ pc \in {"sa_not_ok", "sa_except"}
    /\ pc' = "scp"
    /\ scpRet' = "action"
    /\ UNCHANGED <<creds, data, open_sockets, flagVars, ledVars, keyVars,
                   callVars, timeVars, histVars>>

\* Variant of SendActionFailed: remote_status is cleared and False returned
\* without the call of show_controller_pattern().
SendActionFailedNoRedraw ==
    /\ pc \in {"sa_not_ok", "sa_except"}
    /\ remote_status' = FALSE
    /\ pc' = "for"
    /\ ret' = BoolStr(FALSE)
    /\ padPos' = padPos + 1
    /\ UNCHANGED <<creds, data, open_sockets, boot_status, wifi_status,
                   ledVars, button_states, last_button_states, action, query,
                   result, scpRet, timeVars, histVars>>

\* send_action(), lines 287-288 and 294-295: remote_status = False, then
\* show_controller_pattern().
SendActionFailed ==
    /\ pc \in {"sa_not_ok", "sa_except"}
    /\ remote_status' = FALSE
    /\ pc' = "scp"
    /\ scpRet' = "action"
    /\ UNCHANGED <<creds, data, open_sockets, boot_status, wifi_status,
                   ledVars, keyVars, callVars, timeVars, histVars>>

\* ------------------------------------------------------------ control loop
\* Variant of NewlyPressed: the bit of the last sample is not looked at.
NewlyPressedLevel(cur, last, pad) == BitAnd(cur, ButtonBit(pad)) # 0

\* Line 326: (button_states & button_bit) and not (last_button_states &
\* button_bit).
NewlyPressed(cur, last, pad) ==
    /\ BitAnd(cur, ButtonBit(pad)) # 0
    /\ BitAnd(last, ButtonBit(pad)) = 0

\* handle_keypad_events(), lines 313-316.
LoopEnter ==
    /\ pc = "loop_enter"
    /\ last_button_states' = 0
    /\ last_refresh' = 0
    /\ reqs' = <<>>
    /\ ret' = "none"
    /\ pc' = "sample"
    /\ UNCHANGED <<creds, data, open_sockets, flagVars, ledVars,
                   button_states, padPos, action, query, result, scpRet, now,
                   current_time, fired, redraws>>

\* Line 320: button_states = keypad.get_button_states(); the for loop starts.
Sample ==
    /\ pc = "sample"
    /\ button_states' \in Samples
    /\ padPos' = 1
    /\ pc' = "for"
    /\ UNCHANGED <<creds, data, open_sockets, flagVars, ledVars,
                   last_button_states, callVars, scpRet, timeVars, histVars>>

\* Lines 323-328: the for loop, from position padPos on, up to and including
\* its next call of send_action (the iterations before it change nothing), or
\* to its end. The value send_action returned is dropped.
ForStep ==
    /\ pc = "for"
    /\ ret' = "none"
    /\ redraws' = 0
    /\ LET hits == {i \in padPos .. NumActions :
                       NewlyPressed(button_states, last_button_states, PadAt(i))}
       IN IF hits = {}
          THEN /\ pc' = "store_last"
               /\ padPos' = NumActions + 1
               /\ UNCHANGED <<action, fired>>
          ELSE LET i == CHOOSE h \in hits : \A k \in hits : h <= k
               IN /\ pc' = "sa_entry"
                  /\ padPos' = i
                  /\ action' = ActionAt(i)
                  /\ fired' = Append(fired, PadAt(i))
    /\ UNCHANGED <<creds, data, open_sockets, flagVars, ledVars, button_states,
                   last_button_states, query, result, scpRet, timeVars, reqs>>

\* Line 331: last_button_states = button_states. The histories of the sample
\* end here.
StoreLast ==
    /\ pc = "store_last"
    /\ last_button_states' = button_states
    /\ action' = "none"
    /\ fired' = <<>>
    /\ reqs' = <<>>
    /\ pc' = "refresh_check"
    /\ UNCHANGED <<creds, data, open_sockets, flagVars, ledVars,
                   button_states, padPos, query, result, ret, scpRet,
                   timeVars, redraws>>

\* Variant of RefreshCheck: the redraw is made as soon as refresh_interval
\* has passed.
RefreshCheckAtLeast ==
    /\ pc = "refresh_check"
    /\ current_time' = now
    /\ IF current_time' - last_refresh >= refresh_interval
       THEN pc' = "scp" /\ scpRet' = "refresh"
       ELSE pc' = "sleep" /\ scpRet' = scpRet
    /\ UNCHANGED <<creds, data, open_sockets, flagVars, ledVars, keyVars,
                   callVars, now, last_refresh, histVars>>

\* Lines 334-336: current_time = time.time(); a full redraw when more than
\* refresh_interval has passed since last_refresh.
RefreshCheck ==
    /\ pc = "refresh_check"
    /\ current_time' = now
    /\ IF current_time' - last_refresh > refresh_interval
       THEN pc' = "scp" /\ scpRet' = "refresh"
       ELSE pc' = "sleep" /\ scpRet' = scpRet
    /\ UNCHANGED <<creds, data, open_sockets, flagVars, ledVars, keyVars,
                   callVars, now, last_refresh, histVars>>

\* Line 337: last_refresh = current_time.
RefreshStore ==
    /\ pc = "refresh_store"
    /\ last_refresh' = current_time
    /\ pc' = "sleep"
    /\ UNCHANGED <<creds, data, open_sockets, flagVars, ledVars, keyVars,
                   callVars, scpRet, now, current_time, histVars>>

\* Line 340: time.sleep(0.05), during which the clock may reach the next
\* second. current_time is not read again before line 334 sets it, and is
\* dropped here.
Sleep ==
    /\ pc = "sleep"
    /\ Elapse(1)
    /\ current_time' = 0
    /\ pc' = "sample"
    /\ UNCHANGED <<creds, data, open_sockets, flagVars, ledVars, keyVars,
                   callVars, scpRet, last_refresh, histVars>>

Next ==
    \/ Boot
    \/ UpdateStatusLeds
    \/ ConnectWifi
    \/ CheckRemoteEntry
    \/ HttpGet
    \/ CheckRemoteResult
    \/ ShowControllerPattern
    \/ LoopEnter
    \/ Sample
    \/ ForStep
    \/ SendActionEntry
    \/ SendActionResult
    \/ SendActionFailed
    \/ StoreLast
    \/ RefreshCheck
    \/ RefreshStore
    \/ Sleep

Spec == Init /\ [][Next]_vars

\* The single control thread always takes its next step: nothing but the
\* program itself can stop it.
FairSpec == Spec /\ WF_vars(Next)

\* ------------------------------------------- the functions, on every input
\* update_status_leds, show_controller_pattern and the parsing half of
\* http_get read nothing but the three flags, the staged colours and the
\* bytes received. Here they are called once from every value of these,
\* rather than from the values the control thread brings about.

\* The colours staged before the call: every key the same colour.
StartStagings == {[i \in Pads |-> c] : c \in Colours}

UnitInit ==
    /\ pc = "unit"
    /\ creds = "ok"
    /\ boot_status \in BOOLEAN
    /\ wifi_status \in BOOLEAN
    /\ remote_status \in BOOLEAN
    /\ staged \in StartStagings
    /\ hw = [i \in Pads |-> "OFF"]
    /\ data \in Responses
    /\ button_states = 0
    /\ last_button_states = 0
    /\ padPos = 1
    /\ action = "none"
    /\ query = "none"
    /\ result = NoResult
    /\ open_sockets = 0
    /\ ret = "none"
    /\ scpRet = "none"
    /\ now = 0
    /\ current_time = 0
    /\ last_refresh = 0
    /\ fired = <<>>
    /\ reqs = <<>>
    /\ redraws = 0

\* update_status_leds(), lines 113-137, called once.
CallUpdateStatusLeds ==
    /\ pc = "unit"
    /\ staged' = StatusRow(staged, boot_status, wifi_status, remote_status)
    /\ hw' = staged'
    /\ pc' = "leds_done"
    /\ UNCHANGED <<creds, data, open_sockets, flagVars, keyVars, callVars,
                   scpRet, timeVars, histVars>>

\* show_controller_pattern(), lines 140-161, called once and then once more.
CallShowControllerPattern ==
    /\ pc \in {"unit", "scp_done"}
    /\ staged' = ControllerPattern(staged, boot_status, wifi_status,
                                   remote_status)
    /\ hw' = staged'
    /\ pc' = IF pc = "unit" THEN "scp_done" ELSE "scp_again"
    /\ UNCHANGED <<creds, data, open_sockets, flagVars, keyVars, callVars,
                   scpRet, timeVars, histVars>>

\* http_get(), lines 185-193, on the bytes in data: the (status_code, body)
\* it returns.
CallHttpGetParse ==
    /\ pc = "unit"
    /\ result' = http_get([fault |-> "none", data |-> data])
    /\ pc' = "parsed"
    /\ UNCHANGED <<creds, data, open_sockets, flagVars, ledVars, keyVars,
                   action, query, ret, scpRet, timeVars, histVars>>

UnitNext ==
    \/ CallUpdateStatusLeds
    \/ CallShowControllerPattern
    \/ CallHttpGetParse

UnitSpec == UnitInit /\ [][UnitNext]_vars

\* ================================================================== claims
\* Positions inside a failing send_action, after http_get came back.
SaFailedPcs == {"sa_not_ok", "sa_except"}

\* C1: in every reachable state, remote_status = True implies wifi_status =
\* True.
C1_RemoteImpliesLink == remote_status => wifi_status

\* C1 witness: the loop samples the keypad with both flags up.
C1_Witness == pc = "sample" /\ remote_status /\ wifi_status

\* C2: a failing send_action always continues with the full redraw, and that
\* redraw starts with remote_status already False and flushes RED to the
\* remote status pad.
C2_ClearedBeforeRedraw ==
    [][/\ (pc \in SaFailedPcs => pc' = "scp" /\ scpRet' = "action")
       /\ (pc = "scp" /\ scpRet = "action" =>
              /\ ~remote_status
              /\ staged'[STATUS_REMOTE_PAD] = "RED"
              /\ hw'[STATUS_REMOTE_PAD] = "RED")]_vars

\* C2 witness: a redraw made for a failed action is about to run while the
\* hardware still shows the remote pad green.
C2_Witness ==
    /\ pc = "scp"
    /\ scpRet = "action"
    /\ ~remote_status
    /\ hw[STATUS_REMOTE_PAD] = "GREEN_DIM"

\* C3 as stated: with the link down, a send_action call that has returned has
\* made a transport call for its action and triggered one full redraw.
C3_SendsWithoutLink ==
    (pc = "for" /\ ret # "none" /\ ~wifi_status) =>
        /\ Len(reqs) = Len(fired)
        /\ redraws = 1

\* C3 amended: with the link down, send_action returns False at once: no
\* transport call is made, no redraw happens, remote_status stays False; a
\* transport call of send_action is only ever made with the link up.
C3_GatedWithoutLink ==
    /\ (pc = "for" /\ ret # "none" /\ ~wifi_status) =>
          /\ ret = "False"
          /\ reqs = <<>>
          /\ redraws = 0
          /\ ~remote_status
    /\ (pc \in {"sa_http", "sa_result"} \cup SaFailedPcs => wifi_status)

\* C3 witness: send_action has returned for a newly pressed mapped key with
\* the link down.
C3_Witness ==
    /\ pc = "for"
    /\ ret = "False"
    /\ ~wifi_status
    /\ fired # <<>>

\* C4: check_remote_endpoint called with wifi_status False makes no network
\* call, returns False and leaves remote_status False.
C4_PingGated ==
    /\ (pc = "init_leds3" /\ ~wifi_status) =>
          /\ reqs = <<>>
          /\ query = "none"
          /\ ret = "False"
          /\ ~remote_status
    /\ (pc \in {"cre_http", "cre_result"} => wifi_status)

\* C4 witness: check_remote_endpoint has returned with the link down.
C4_Witness == pc = "init_leds3" /\ ~wifi_status /\ ret = "False"

\* C5: whatever http_get did for check_remote_endpoint (200, another status,
\* the sentinel 0, an exception), the function returns True iff the status is
\* exactly 200, and remote_status afterwards equals the returned value.
C5_PingResult ==
    [][pc = "cre_result" =>
          /\ ret' = (IF ~result.raised /\ result.status = 200
                     THEN "True" ELSE "False")
          /\ remote_status' = (ret' = "True")
          /\ pc' = "init_leds3"]_vars

\* C5 witness: check_remote_endpoint has returned True with the link up.
C5_Witness ==
    /\ pc = "init_leds3"
    /\ wifi_status
    /\ ret = "True"
    /\ remote_status

\* The pads held in a sample.
Held(mask) == {p \in Pads : (mask \div Pow2(p)) % 2 = 1}

\* The pads of the key map and their tokens, as the claims list them.
KeyTokens ==
    [p \in {4, 6, 8, 9, 10, 11, 14} |->
        CASE p = 6 -> "forward"
          [] p = 9 -> "left"
          [] p = 10 -> "stop"
          [] p = 11 -> "right"
          [] p = 14 -> "backwards"
          [] p = 4 -> "light-on"
          [] p = 8 -> "light-off"]

Vocabulary == {"forward", "left", "stop", "right", "backwards", "light-on",
               "light-off", "ping"}

\* The pads whose bit is set in the current sample and clear in the last.
Rising == Held(button_states) \ Held(last_button_states)

FiredSet == {fired[i] : i \in DOMAIN fired}

\* C6: send_action is called for a key exactly when its bit is set in the
\* current sample and clear in the previous one: when a new sample is taken
\* last_button_states is the sample before it, every call is for a rising
\* mapped key, and at the end of the for loop each rising mapped key has been
\* dispatched exactly once (so none when the two samples are equal, and a held
\* key not again).
C6_RisingEdgeOnly ==
    /\ (pc = "sample" => last_button_states = button_states)
    /\ (pc = "sa_entry" => fired[Len(fired)] \in Rising)
    /\ (pc = "store_last" =>
          /\ FiredSet = Rising \cap DOMAIN KeyTokens
          /\ Len(fired) = Cardinality(FiredSet))

\* C6 witness: the for loop has ended without a dispatch for a key held over
\* two consecutive samples.
C6_Witness ==
    /\ pc = "store_last"
    /\ button_states = MaskOf({CONTROLLER_UP})
    /\ last_button_states = button_states
    /\ fired = <<>>

ListedOrder == <<6, 9, 10, 11, 14, 4, 8>>
ListedRank(p) == CHOOSE i \in DOMAIN ListedOrder : ListedOrder[i] = p

LoopPcs == {"sample", "for", "sa_entry", "sa_http", "sa_result", "sa_not_ok",
            "sa_except", "store_last", "refresh_check", "refresh_store",
            "sleep"}

\* C8: every request carries a token of the vocabulary; a key press is sent
\* with the token of its key; a reserved or unmapped key never causes a
\* send_action call or a request.
C8_KeyMapOnly ==
    /\ \A i \in DOMAIN reqs : reqs[i] \in Vocabulary
    /\ query \in Vocabulary \cup {"none"}
    /\ FiredSet \subseteq DOMAIN KeyTokens
    /\ (pc \in {"sa_entry", "sa_http", "sa_result"} \cup SaFailedPcs =>
          action = KeyTokens[fired[Len(fired)]])
    /\ (pc \in {"sa_http", "sa_result"} => query = action)
    /\ (pc \in LoopPcs \/ (pc = "scp" /\ scpRet # "init") =>
          /\ Len(reqs) <= Len(fired)
          /\ \A i \in DOMAIN reqs : reqs[i] = KeyTokens[fired[i]])
    /\ (pc = "store_last" /\ Rising \cap DOMAIN KeyTokens = {} =>
          fired = <<>> /\ reqs = <<>>)

\* C8 witness: the reserved function key 12 was newly pressed with the link
\* up and the for loop ended without a call or a request.
C8_Witness ==
    /\ pc = "store_last"
    /\ wifi_status
    /\ button_states = MaskOf({FUNCTION_KEY_3})
    /\ last_button_states = 0
    /\ fired = <<>>
    /\ reqs = <<>>

\* http_get has come back to its caller with a failure.
RemoteFailure ==
    /\ pc \in {"cre_result", "sa_result"}
    /\ (result.raised \/ result.status # 200)

\* C9: a failure of http_get never leaves check_remote_endpoint or
\* send_action: each ends with remote_status False (returning False), and the
\* loop goes on to sample the keypad again.
C9_FailuresRecovered ==
    /\ [][/\ (pc = "cre_result" /\ RemoteFailure =>
                ret' = "False" /\ ~remote_status' /\ pc' = "init_leds3")
          /\ (pc = "sa_result" /\ RemoteFailure => pc' \in SaFailedPcs)
          /\ (pc \in SaFailedPcs => ~remote_status' /\ pc' = "scp")
          /\ (pc = "scp" /\ scpRet = "action" =>
                ret' = "False" /\ pc' = "for")]_vars
    /\ (RemoteFailure ~> pc = "sample")

\* C9 witness: a send_action whose request failed has returned False to the
\* for loop, which goes on.
C9_Witness ==
    /\ pc = "for"
    /\ wifi_status
    /\ ret = "False"
    /\ redraws = 1
    /\ ~remote_status

\* C10 as stated: without credentials booted stays false, no link association
\* and no remote check are attempted, and the control layout is never put on
\* the hardware.
C10_NoLayoutWithoutCredentials ==
    creds = "missing" =>
        /\ ~boot_status
        /\ pc \notin {"connect_wifi", "cre_entry", "cre_http", "cre_result"}
        /\ reqs = <<>>
        /\ \A p \in Pads : hw[p] \notin {"WHITE_DIM", "BLUE_DIM", "PURPLE"}

\* C11: after update_status_leds, whatever the three flags are (all eight
\* combinations) and whatever was staged before, keys 0, 1 and 2 are staged
\* GREEN_DIM where their flag is set and RED where it is not, and key 3 is
\* staged ORANGE; the flush puts the same colours on the hardware.
C11_StatusRowFromFlags ==
    pc = "leds_done" =>
        /\ staged[0] = (IF boot_status THEN "GREEN_DIM" ELSE "RED")
        /\ staged[1] = (IF wifi_status THEN "GREEN_DIM" ELSE "RED")
        /\ staged[2] = (IF remote_status THEN "GREEN_DIM" ELSE "RED")
        /\ staged[3] = "ORANGE"
        /\ hw = staged

\* The status row rendered for a combination the control thread never brings
\* about: remote set, link and boot cleared.
C11_Witness ==
    /\ pc = "leds_done"
    /\ ~boot_status /\ ~wifi_status /\ remote_status
    /\ staged[0] = "RED" /\ staged[1] = "RED" /\ staged[2] = "GREEN_DIM"
    /\ staged[3] = "ORANGE"
    /\ staged[4] = "PURPLE"

\* C12: a second show_controller_pattern call, right after a first one and
\* with the flags unchanged, changes no key's staged colour (and none on the
\* hardware).
C12_RedrawIdempotent ==
    [][(pc = "scp_done" /\ pc' = "scp_again") =>
          (staged' = staged /\ hw' = hw)]_vars

\* The second of two consecutive redraws has run, with the remote flag
\* cleared and the other two set.
C12_Witness ==
    /\ pc = "scp_again"
    /\ boot_status /\ wifi_status /\ ~remote_status
    /\ staged[STATUS_REMOTE_PAD] = "RED"
    /\ staged[CONTROLLER_STOP] = "BLUE_DIM"

\* What C13 expects of each response: <<bytes, status code, body>>. The
\* status code is the second blank-separated token of the first line where
\* that is an integer and 0 otherwise; the body is what follows the first
\* empty line, and empty where there is none.
C13_Expected ==
    { << <<"HTTP/1.1", "SP", "200", "SP", "OK", "CRLF", "Host:", "SP", "x",
           "CRLF", "CRLF", "OK">>, 200, <<"OK">> >>,
      << <<"HTTP/1.1", "SP", "500", "SP", "Internal", "CRLF", "CRLF",
           "oops">>, 500, <<"oops">> >>,
      << <<"HTTP/1.1", "SP", "abc", "CRLF", "CRLF">>, 0, <<>> >>,
      << <<"garbage", "CRLF", "CRLF">>, 0, <<>> >>,
      << <<"200", "SP", "OK", "CRLF", "CRLF", "OK">>, 0, <<"OK">> >>,
      << <<"HTTP/1.1", "SP", "200">>, 200, <<>> >>,
      << <<"HTTP/1.1", "SP", "200", "CRLF", "CRLF", "a", "CRLF", "CRLF",
           "b">>, 200, <<"a", "CRLF", "CRLF", "b">> >>,
      << <<>>, 0, <<>> >> }

\* C13: http_get returns, without raising, the status code taken from the
\* second token of the first line (0 where that token is missing or not an
\* integer, the empty response included) and the body that follows the first
\* empty line.
C13_ParsedResponse ==
    pc = "parsed" =>
        /\ ~result.raised
        /\ <<data, result.status, result.body>> \in C13_Expected

\* A one-token first line was parsed to status 0 and an empty body.
C13_Witness ==
    /\ pc = "parsed"
    /\ data = <<"garbage", "CRLF", "CRLF">>
    /\ result.status = 0
    /\ result.body = <<>>

\* C14: when send_action has returned False with the link up (http_get came
\* back with a status other than 200, or raised), exactly one redraw was made
\* from within that call, and remote_status is False.
C14_OneRedrawPerFailure ==
    (pc = "for" /\ ret = "False" /\ wifi_status) =>
        (redraws = 1 /\ ~remote_status)

\* send_action("stop") has returned False after one request and one redraw,
\* with the link up.
C14_Witness ==
    /\ pc = "for"
    /\ ret = "False"
    /\ wifi_status
    /\ action = "stop"
    /\ reqs = <<"stop">>
    /\ redraws = 1
    /\ hw[STATUS_REMOTE_PAD] = "RED"

\* The colour C15 gives key i at the flush of a full redraw.
C15_ColourOf(i) ==
    IF i = 0 THEN (IF boot_status THEN "GREEN_DIM" ELSE "RED")
    ELSE IF i = 1 THEN (IF wifi_status THEN "GREEN_DIM" ELSE "RED")
    ELSE IF i = 2 THEN (IF remote_status THEN "GREEN_DIM" ELSE "RED")
    ELSE IF i = 3 THEN "ORANGE"
    ELSE IF i \in {6, 9, 10, 11, 14} THEN "BLUE_DIM"
    ELSE IF i \in {4, 8, 12} THEN "PURPLE"
    ELSE "WHITE_DIM"

C16_Phase ==
    IF pc \in {"boot", "init_leds1"} THEN 1
    ELSE IF pc \in {"connect_wifi", "init_leds2"} THEN 2
    ELSE IF pc \in {"cre_entry", "cre_http", "cre_result", "init_leds3"}
            \/ (pc = "scp" /\ scpRet = "init") THEN 3
    ELSE 4

\* C16 as stated: the control thread stays in its state or moves to the next
\* one of Booting, ConnectingLink, CheckingRemote, Ready; the step that
\* leaves one of the first three is a render; in Ready it stays in Ready,
\* attempts no link association and leaves wifi_status as it is.
C16_PhasesInOrder ==
    [][/\ C16_Phase' \in {C16_Phase, C16_Phase + 1}
       /\ (C16_Phase' # C16_Phase =>
              /\ pc \in {"init_leds1", "init_leds2", "scp"}
              /\ hw' = staged')
       /\ (C16_Phase = 4 =>
              /\ wifi_status' = wifi_status
              /\ pc' # "connect_wifi")]_vars

\* The same with credentials present.
C16_PhasesInOrderWithCredentials ==
    [][creds # "missing" =>
       /\ C16_Phase' \in {C16_Phase, C16_Phase + 1}
       /\ (C16_Phase' # C16_Phase =>
              /\ pc \in {"init_leds1", "init_leds2", "scp"}
              /\ hw' = staged')
       /\ (C16_Phase = 4 =>
              /\ wifi_status' = wifi_status
              /\ pc' # "connect_wifi")]_vars

\* The control thread is in the loop of handle_keypad_events.
C17_Ready == pc \in LoopPcs \/ (pc = "scp" /\ scpRet # "init")

\* C17: in the loop, (a) at the end of an iteration the periodic full redraw
\* is made exactly when the clock is more than 1 past last_refresh, whatever
\* else is the case; (b) that redraw flushes, and is followed by
\* last_refresh taking the clock value read for the comparison; (c) nothing
\* else changes last_refresh, a redraw after a failed action included; (d)
\* whenever the clock is more than 1 past last_refresh, a periodic redraw
\* follows.
C17_PeriodicRedraw ==
    /\ [][pc = "refresh_check" =>
             ((pc' = "scp" /\ scpRet' = "refresh") <=>
                  (now - last_refresh > 1))]_vars
    /\ [][(pc = "scp" /\ scpRet = "refresh") =>
             (pc' = "refresh_store" /\ hw' = staged'
                 /\ current_time = now)]_vars
    /\ [][pc = "refresh_store" => last_refresh' = current_time]_vars
    /\ [][last_refresh' # last_refresh => pc = "refresh_store"]_vars
    /\ ((C17_Ready /\ now - last_refresh > 1) ~> (pc = "refresh_store"))

\* A second periodic redraw has been made, more than a second after the
\* first one.
C17_Witness ==
    /\ pc = "refresh_store"
    /\ last_refresh > 0
    /\ current_time - last_refresh > 1

\* A redraw after a failed action was made more than a second after the
\* last periodic one and left last_refresh alone.
C17_FailureRedrawWitness ==
    /\ pc = "for"
    /\ redraws = 1
    /\ last_refresh > 0
    /\ now - last_refresh > 1

\* C18: (a) the step of send_action that finds status 200 returns True and
\* leaves the three flags, the staged colours and the hardware colours as
\* they are; (b) a send_action call that returned True made no redraw; (c)
\* once handle_keypad_events is entered, a cleared remote_status stays
\* cleared.
C18_SuccessChangesNothing ==
    /\ [][(pc = "sa_result" /\ ~result.raised /\ result.status = 200) =>
             /\ UNCHANGED <<boot_status, wifi_status, remote_status>>
             /\ UNCHANGED <<staged, hw>>
             /\ pc' = "for"
             /\ ret' = "True"]_vars
    /\ [](pc = "for" /\ ret = "True" => redraws = 0)
    /\ [][(C16_Phase = 4 /\ ~remote_status) => ~remote_status']_vars

\* An action was answered with 200 while remote_status is False: the flag
\* and the red pad stay.
C18_Witness ==
    /\ pc = "for"
    /\ ret = "True"
    /\ wifi_status
    /\ ~remote_status
    /\ hw[STATUS_REMOTE_PAD] = "RED"
    /\ redraws = 0

\* The status row on the hardware shows the three flags.
C19_RowAgrees ==
    /\ hw[0] = (IF boot_status THEN "GREEN_DIM" ELSE "RED")
    /\ hw[1] = (IF wifi_status THEN "GREEN_DIM" ELSE "RED")
    /\ hw[2] = (IF remote_status THEN "GREEN_DIM" ELSE "RED")

\* C19 as stated: whenever the loop is about to sample the keypad (line
\* 320), the status row last flushed to the hardware shows the three flags
\* as they are.
C19_DisplayCurrentAtSample == pc = "sample" => C19_RowAgrees

\* The same with credentials present.
C19_DisplayCurrentWithCredentials ==
    (pc = "sample" /\ creds # "missing") => C19_RowAgrees

\* C20 as stated: whenever http_get is not running (it has returned or
\* raised, or was not called yet), no socket is open.
C20_NoSocketLeftOpen == open_sockets = 0
====
